---- MODULE Spec2Model ----
\* A model of src/homework.py: the polling loop of main() with its helper
\* steps check_tokens, get_api_answer, check_response, parse_status and
\* send_message.  The Russian message texts of the source are rendered in
\* ASCII, one fixed rendering per source literal.
EXTENDS Integers, Sequences, FiniteSets, TLC

VARIABLES
    PRACTICUM_TOKEN,      \* os.getenv("PRACTICUM_TOKEN"), line 11
    TELEGRAM_TOKEN,       \* os.getenv("TELEGRAM_TOKEN"), line 12
    TELEGRAM_CHAT_ID,     \* os.getenv("TELEGRAM_CHAT_ID"), line 13
    pc,                   \* position of main()
    timestamp,            \* the time cursor, main() line 135
    last_error_message,   \* the error memo, main() line 136
    response,             \* local of main(), line 140
    homeworks,            \* local of main(), line 141
    message,              \* local of main(), lines 144, 154, 165
    error,                \* the exception raised in this iteration, or None
    critical_log,         \* what check_tokens logged with logging.critical
    from_date,            \* params["from_date"] of the request of this iteration
    sent,                 \* calls of bot.send_message made in this iteration
    fetches,              \* requests.get calls made in this iteration
    run_message,          \* message of the current run of identical failures
    run_attempts,         \* error notifications attempted during that run
    http,                 \* the outcome of requests.get in this iteration
    sleeps,               \* the periods slept since the last requests.get
    cleared               \* the memo that line 150 last overwrote, when it is
                          \* a watched one and no iteration has failed since

vars == <<PRACTICUM_TOKEN, TELEGRAM_TOKEN, TELEGRAM_CHAT_ID, pc, timestamp,
          last_error_message, response, homeworks, message, error,
          critical_log, from_date, sent, fetches, run_message, run_attempts,
          http, sleeps, cleared>>

-----------------------------------------------------------------------------
\* Bounds of the model.

\* time values are 0..MaxTime
MaxTime == 1
\* a homeworks list holds at most MaxHomeworks items
MaxHomeworks == 2
\* run_attempts saturates at MaxAttempts
MaxAttempts == 3

-----------------------------------------------------------------------------
\* Python values.

\* Python's None; an optional string s is <<s>>
None == <<>>

Some(v) == <<v>>

\* truth value of an optional string: None and "" are falsy
Truthy(token) == token # None /\ token[1] # ""

Min(a, b) == IF a < b THEN a ELSE b

\* an exception object: its class and its single argument
Exc(type, arg) == [type |-> type, arg |-> arg]

\* str(error): KeyError shows the repr of its argument, the others the argument
Str(e) == IF e.type = "KeyError" THEN "'" \o e.arg \o "'" ELSE e.arg

\* isinstance(e, PracticumAPIError), classes of lines 26-47
IsPracticumAPIError(e) ==
    e.type \in {"PracticumAPIError", "APIRequestError", "APIResponseError",
                "APIJSONError"}

\* isinstance(e, (apihelper.ApiException, requests.RequestException))
IsSendFailure(e) == e.type \in {"ApiException", "RequestException"}

\* the result of a call: a returned value or a raised exception
Return(v) == [raised |-> FALSE, value |-> v]

Raise(e) == [raised |-> TRUE, error |-> e]

-----------------------------------------------------------------------------
\* Module constants of src/homework.py.

\* RETRY_PERIOD, line 15
RETRY_PERIOD == 600

ENDPOINT == "https://practicum.yandex.ru/api/user_api/homework_statuses/"

\* HOMEWORK_VERDICTS with the verdicts of approved and rejected exchanged
HOMEWORK_VERDICTS_Swapped ==
    [s \in {"approved", "reviewing", "rejected"} |->
        CASE s = "approved" -> "Rabota proverena: u revyuera est zamechaniya."
          [] s = "reviewing" -> "Rabota vzyata na proverku revyuerom."
          [] s = "rejected" ->
                 "Rabota proverena: revyueru vsyo ponravilos. Ura!"]

\* HOMEWORK_VERDICTS, lines 19-23
HOMEWORK_VERDICTS ==
    [s \in {"approved", "reviewing", "rejected"} |->
        CASE s = "approved" ->
                 "Rabota proverena: revyueru vsyo ponravilos. Ura!"
          [] s = "reviewing" -> "Rabota vzyata na proverku revyuerom."
          [] s = "rejected" -> "Rabota proverena: u revyuera est zamechaniya."]

\* DictGet looking the key up in no dictionary: the default is returned
DictGetDefault(d, key, default) == default

\* DictGet with a misspelt key and the default 0
DictGetMisspelt(d, key, default) == DictGetDefault(d, "current_data", 0)

\* dict.get(key, default)
DictGet(d, key, default) == IF key \in DOMAIN d THEN d[key] ELSE default

-----------------------------------------------------------------------------
\* The values the environment can supply.

Times == 0..MaxTime

\* a value of os.getenv: unset, set but empty, set
TokenValues == {None, Some(""), Some("tok")}

Names == {"X", "Y"}

Statuses == {"approved", "reviewing", "rejected", "archived"}

\* a JSON object with the given optional name and optional status
Item(n, s) ==
    (IF n = None THEN <<>> ELSE "homework_name" :> n[1])
        @@ (IF s = None THEN <<>> ELSE "status" :> s[1])

Items ==
    {Item(n, s) : n \in {None} \cup {Some(x) : x \in Names},
                  s \in {None} \cup {Some(x) : x \in Statuses}}

\* a decoded JSON value carries its Python type: isinstance reads it
JsonList(l) == [type |-> "list", val |-> l]

JsonDict(d) == [type |-> "dict", val |-> d]

HomeworkLists == UNION {[1..n -> Items] : n \in 0..MaxHomeworks}

\* the value under "homeworks": a list of items, or an object instead of a list
HomeworksValues == {JsonList(l) : l \in HomeworkLists} \cup {JsonDict(<<>>)}

\* a JSON object with the given optional homeworks and optional current_date
PayloadDict(h, d) ==
    JsonDict((IF h = None THEN <<>> ELSE "homeworks" :> h[1])
                 @@ (IF d = None THEN <<>> ELSE "current_date" :> d[1]))

\* the decoded payloads: a JSON array, or an object with either key optional
Payloads ==
    {JsonList(<<>>)} \cup
    {PayloadDict(h, d) : h \in {None} \cup {Some(x) : x \in HomeworksValues},
                         d \in {None} \cup {Some(t) : t \in Times}}

StatusCodes == {200, 404, 500}

\* the outcome of response.json(): the decoded payload, or ValueError
JsonOutcomes ==
    {Return(p) : p \in Payloads} \cup {Raise(Exc("ValueError", "Expecting value"))}

\* the bodies tried with a status code other than 200, where the body is not read
ErrorBodies ==
    {Raise(Exc("ValueError", "Expecting value")), Return(JsonList(<<>>)),
     Return(PayloadDict(Some(JsonList(<<>>)), Some(0)))}

\* the outcome of requests.get: an exception, or a response
HttpOutcomes ==
    {[kind |-> "raise", error |-> e] :
        e \in {Exc("RequestException", "connection refused"),
               Exc("RequestException", "read timed out"),
               Exc("Exception", "unexpected")}}
    \cup
    {[kind |-> "response", status_code |-> c, json |-> j] :
        c \in {200}, j \in JsonOutcomes}
    \cup
    {[kind |-> "response", status_code |-> c, json |-> j] :
        c \in StatusCodes \ {200}, j \in ErrorBodies}

\* the outcome of bot.send_message: delivered, or an exception
SendOutcomes ==
    {Return(None)} \cup
    {Raise(e) : e \in {Exc("ApiException", "bot api error"),
                       Exc("RequestException", "telegram unreachable"),
                       Exc("Exception", "unexpected")}}

-----------------------------------------------------------------------------
\* The helper functions.

\* missing with TELEGRAM_CHAT_ID left out of the tokens
missing_NoChatId ==
    LET tokens == << <<PRACTICUM_TOKEN, "PRACTICUM_TOKEN">>,
                     <<TELEGRAM_TOKEN, "TELEGRAM_TOKEN">> >>
        falsy == SelectSeq(tokens, LAMBDA p : ~Truthy(p[1]))
    IN  [i \in 1..Len(falsy) |-> falsy[i][2]]

\* check_tokens, lines 52-57: the names of the tokens that are falsy, in order
missing ==
    LET tokens == << <<PRACTICUM_TOKEN, "PRACTICUM_TOKEN">>,
                     <<TELEGRAM_TOKEN, "TELEGRAM_TOKEN">>,
                     <<TELEGRAM_CHAT_ID, "TELEGRAM_CHAT_ID">> >>
        falsy == SelectSeq(tokens, LAMBDA p : ~Truthy(p[1]))
    IN  [i \in 1..Len(falsy) |-> falsy[i][2]]

\* check_tokens, line 63: return not bool(missing)
check_tokens == missing = <<>>

\* send_message without the raise of line 73: the failure is only logged
send_message_Swallows(outcome) == Return(None)

\* send_message, lines 66-73: the bot's exception is logged and re-raised
send_message(outcome) ==
    IF outcome.raised THEN Raise(outcome.error) ELSE Return(None)

\* params with the cursor left out: every request asks from time 0
params_FromZero(ts) == [from_date |-> 0]

\* get_api_answer, line 78: params = {"from_date": timestamp}
params(ts) == [from_date |-> ts]

\* get_api_answer with the body decoded before the status code is tested
get_api_answer_JsonFirst(ts, net) ==
    IF net.kind = "raise"
    THEN IF net.error.type = "RequestException"
         THEN Raise(Exc("APIRequestError",
                        "Oshibka zaprosa k API: " \o Str(net.error)))
         ELSE Raise(net.error)
    ELSE IF net.json.raised
    THEN Raise(Exc("APIJSONError",
                   "Ne udalos razobrat JSON v otvete API: "
                       \o Str(net.json.error)))
    ELSE IF net.status_code # 200
    THEN Raise(Exc("APIResponseError",
                   "Endpoint " \o ENDPOINT \o " nedostupen. Otvet API: "
                       \o ToString(net.status_code)))
    ELSE Return(net.json.value)

\* get_api_answer, lines 76-97
get_api_answer(ts, net) ==
    IF net.kind = "raise"
    THEN IF net.error.type = "RequestException"
         THEN Raise(Exc("APIRequestError",
                        "Oshibka zaprosa k API: " \o Str(net.error)))
         ELSE Raise(net.error)
    ELSE IF net.status_code # 200
    THEN Raise(Exc("APIResponseError",
                   "Endpoint " \o ENDPOINT \o " nedostupen. Otvet API: "
                       \o ToString(net.status_code)))
    ELSE IF net.json.raised
    THEN Raise(Exc("APIJSONError",
                   "Ne udalos razobrat JSON v otvete API: "
                       \o Str(net.json.error)))
    ELSE Return(net.json.value)

\* check_response without the test for the current_date key
check_response_NoDateKey(resp) ==
    IF resp.type # "dict"
    THEN Raise(Exc("TypeError", "Otvet API imeet nevernyi tip, ozhidalsya dict"))
    ELSE IF "homeworks" \notin DOMAIN resp.val
    THEN Raise(Exc("KeyError", "V otvete API otsutstvuyut ozhidaemye klyuchi"))
    ELSE LET response_homeworks == resp.val["homeworks"]
         IN  IF response_homeworks.type # "list"
             THEN Raise(Exc("TypeError",
                            "Klyuch \"homeworks\" dolzhen soderzhat spisok"))
             ELSE Return(response_homeworks)

\* check_response, lines 100-110
check_response(resp) ==
    IF resp.type # "dict"
    THEN Raise(Exc("TypeError", "Otvet API imeet nevernyi tip, ozhidalsya dict"))
    ELSE IF "homeworks" \notin DOMAIN resp.val
            \/ "current_date" \notin DOMAIN resp.val
    THEN Raise(Exc("KeyError", "V otvete API otsutstvuyut ozhidaemye klyuchi"))
    ELSE LET response_homeworks == resp.val["homeworks"]
         IN  IF response_homeworks.type # "list"
             THEN Raise(Exc("TypeError",
                            "Klyuch \"homeworks\" dolzhen soderzhat spisok"))
             ELSE Return(response_homeworks)

\* parse_status, lines 113-126
parse_status(homework) ==
    IF "homework_name" \notin DOMAIN homework
    THEN Raise(Exc("KeyError", "V otvete otsutstvuet klyuch \"homework_name\""))
    ELSE IF "status" \notin DOMAIN homework
    THEN Raise(Exc("KeyError", "V otvete otsutstvuet klyuch \"status\""))
    ELSE LET homework_name == homework["homework_name"]
             status == homework["status"]
         IN  \* HOMEWORK_VERDICTS.get(status) is None
             IF status \notin DOMAIN HOMEWORK_VERDICTS
             THEN Raise(Exc("ValueError",
                            "Neozhidannyi status raboty: " \o status))
             ELSE Return("Izmenilsya status proverki raboty \""
                             \o homework_name \o "\". "
                             \o HOMEWORK_VERDICTS[status])

-----------------------------------------------------------------------------
\* main(), lines 129-174.

Init ==
    /\ PRACTICUM_TOKEN \in TokenValues
    /\ TELEGRAM_TOKEN \in TokenValues
    /\ TELEGRAM_CHAT_ID \in TokenValues
    /\ pc = "start"
    /\ timestamp = None
    /\ last_error_message = None
    /\ response = None
    /\ homeworks = None
    /\ message = None
    /\ error = None
    /\ critical_log = None
    /\ from_date = None
    /\ sent = <<>>
    /\ fetches = 0
    /\ run_message = None
    /\ run_attempts = 0
    /\ http = None
    /\ sleeps = <<>>
    /\ cleared = None

\* Handler with except Exception written first: it catches everything
Handler_ExceptionFirst(e) == "except_Exception"

\* the except clause of lines 152-172 that catches e
Handler(e) ==
    IF IsPracticumAPIError(e) THEN "except_PracticumAPIError"
    ELSE "except_Exception"

\* lines 131-136: check_tokens, sys.exit or the initial cursor and memo
MainStart ==
    /\ pc = "start"
    /\ critical_log' = IF missing # <<>> THEN Some(missing) ELSE None
    /\ IF ~check_tokens
       THEN /\ pc' = "exited"
            /\ UNCHANGED <<timestamp, last_error_message>>
       ELSE /\ \E now \in Times : timestamp' = now
            /\ last_error_message' = None
            /\ pc' = "get_api_answer"
    /\ UNCHANGED <<http, sleeps, cleared>>
    /\ UNCHANGED <<PRACTICUM_TOKEN, TELEGRAM_TOKEN, TELEGRAM_CHAT_ID, response,
                   homeworks, message, error, from_date, sent, fetches,
                   run_message, run_attempts>>

\* line 140: response = get_api_answer(timestamp)
GetApiAnswer ==
    /\ pc = "get_api_answer"
    /\ \E outcome \in HttpOutcomes :
          LET r == get_api_answer(timestamp, outcome)
          IN  /\ http' = outcome
              /\ IF r.raised
                 THEN /\ error' = r.error
                      /\ pc' = Handler(r.error)
                      /\ UNCHANGED response
                 ELSE /\ response' = r.value
                      /\ pc' = "check_response"
                      /\ UNCHANGED error
    /\ from_date' = params(timestamp)["from_date"]
    /\ sleeps' = <<>>
    /\ fetches' = fetches + 1
    /\ UNCHANGED <<cleared>>
    /\ UNCHANGED <<PRACTICUM_TOKEN, TELEGRAM_TOKEN, TELEGRAM_CHAT_ID, timestamp,
                   last_error_message, homeworks, message, critical_log, sent,
                   run_message, run_attempts>>

\* lines 141-147: homeworks = check_response(response); if homeworks
CheckResponse ==
    /\ pc = "check_response"
    /\ LET r == check_response(response)
       IN  IF r.raised
           THEN /\ error' = r.error
                /\ pc' = Handler(r.error)
                /\ UNCHANGED homeworks
           ELSE /\ homeworks' = r.value
                /\ pc' = IF r.value.val # <<>> THEN "parse_status" ELSE "advance"
                /\ UNCHANGED error
    /\ UNCHANGED <<http, sleeps, cleared>>
    /\ UNCHANGED <<PRACTICUM_TOKEN, TELEGRAM_TOKEN, TELEGRAM_CHAT_ID, timestamp,
                   last_error_message, response, message, critical_log,
                   from_date, sent, fetches, run_message, run_attempts>>

\* Homework0 taking the last item, homeworks[-1]
HomeworkLast(h) == h.val[Len(h.val)]

\* line 144: homeworks[0]
Homework0(h) == h.val[1]

\* line 144: message = parse_status(homeworks[0])
ParseStatus ==
    /\ pc = "parse_status"
    /\ LET r == parse_status(Homework0(homeworks))
       IN  IF r.raised
           THEN /\ error' = r.error
                /\ pc' = Handler(r.error)
                /\ UNCHANGED message
           ELSE /\ message' = Some(r.value)
                /\ pc' = "send_message"
                /\ UNCHANGED error
    /\ UNCHANGED <<http, sleeps, cleared>>
    /\ UNCHANGED <<PRACTICUM_TOKEN, TELEGRAM_TOKEN, TELEGRAM_CHAT_ID, timestamp,
                   last_error_message, response, homeworks, critical_log,
                   from_date, sent, fetches, run_message, run_attempts>>

\* line 145: send_message(bot, message)
SendStatus ==
    /\ pc = "send_message"
    /\ \E outcome \in SendOutcomes :
          LET r == send_message(outcome)
          IN  /\ sent' = Append(sent, [site |-> "status", text |-> message[1],
                                       outcome |-> outcome])
              /\ IF r.raised
                 THEN /\ error' = r.error
                      /\ pc' = Handler(r.error)
                 ELSE /\ pc' = "advance"
                      /\ UNCHANGED error
    /\ UNCHANGED <<http, sleeps, cleared>>
    /\ UNCHANGED <<PRACTICUM_TOKEN, TELEGRAM_TOKEN, TELEGRAM_CHAT_ID, timestamp,
                   last_error_message, response, homeworks, message,
                   critical_log, from_date, fetches, run_message, run_attempts>>

\* the messages whose recurrence after a successful iteration is followed:
\* one of each except clause
Watched ==
    {"Sboi v rabote programmy: Oshibka zaprosa k API: connection refused",
     "Neizvestnaya oshibka: Neozhidannyi status raboty: archived"}

\* the memo, when it is a watched message
Watch(memo) == IF memo # None /\ memo[1] \in Watched THEN memo ELSE None

\* Advance without line 150: the memo is kept
AdvanceKeepsMemo ==
    /\ pc = "advance"
    /\ timestamp' = DictGet(response.val, "current_date", timestamp)
    /\ cleared' = Watch(last_error_message)
    /\ pc' = "sleep"
    /\ UNCHANGED <<http, sleeps>>
    /\ UNCHANGED <<PRACTICUM_TOKEN, TELEGRAM_TOKEN, TELEGRAM_CHAT_ID, response,
                   homeworks, message, error, critical_log, from_date, sent,
                   fetches, last_error_message, run_message, run_attempts>>

\* lines 149-150: the cursor advances and the memo is cleared
Advance ==
    /\ pc = "advance"
    /\ timestamp' = DictGet(response.val, "current_date", timestamp)
    /\ last_error_message' = None
    /\ cleared' = Watch(last_error_message)
    /\ run_message' = None
    /\ run_attempts' = 0
    /\ pc' = "sleep"
    /\ UNCHANGED <<http, sleeps>>
    /\ UNCHANGED <<PRACTICUM_TOKEN, TELEGRAM_TOKEN, TELEGRAM_CHAT_ID, response,
                   homeworks, message, error, critical_log, from_date, sent,
                   fetches>>

\* Differs with the comparison dropped: every failure is notified
DiffersAlways(msg, memo) == TRUE

\* the message differs from the memo: the test of lines 156 and 167
Differs(msg, memo) == Some(msg) # memo

\* Swallowed with no try around the send: only a delivered send goes on
SwallowedNever(r) == ~r.raised

\* after the send of lines 157-160, 168-171: is the bot's exception swallowed
Swallowed(r) == ~r.raised \/ IsSendFailure(r.error)

\* NewMemo with the assignment moved into the try, after the send
NewMemoIfDelivered(msg, r) == IF r.raised THEN last_error_message ELSE Some(msg)

\* lines 161 and 172: last_error_message = message, after the send r
NewMemo(msg, r) == Some(msg)

\* the body of an except clause, lines 154-161 and 165-172, with its prefix
ErrorBranch(prefix) ==
    LET msg == prefix \o Str(error)
        attempted == IF Differs(msg, last_error_message) THEN 1 ELSE 0
    IN  /\ message' = Some(msg)
        /\ IF run_message = Some(msg)
           THEN /\ run_attempts' = Min(run_attempts + attempted, MaxAttempts)
                /\ UNCHANGED run_message
           ELSE /\ run_message' = Some(msg)
                /\ run_attempts' = attempted
        /\ IF Differs(msg, last_error_message)
           THEN \E outcome \in SendOutcomes :
                   LET r == send_message(outcome)
                   IN  /\ sent' = Append(sent, [site |-> "error", text |-> msg,
                                                outcome |-> outcome])
                       /\ IF Swallowed(r)
                          THEN /\ last_error_message' = NewMemo(msg, r)
                               /\ pc' = "sleep"
                          ELSE \* the exception leaves main()
                               /\ pc' = "crashed"
                               /\ UNCHANGED last_error_message
           ELSE /\ pc' = "sleep"
                /\ UNCHANGED <<last_error_message, sent>>
        /\ UNCHANGED <<http, sleeps, cleared>>
        /\ UNCHANGED <<PRACTICUM_TOKEN, TELEGRAM_TOKEN, TELEGRAM_CHAT_ID,
                       timestamp, response, homeworks, error, critical_log,
                       from_date, fetches>>

\* lines 152-161: except PracticumAPIError
ExceptPracticumAPIError ==
    /\ pc = "except_PracticumAPIError"
    /\ ErrorBranch("Sboi v rabote programmy: ")

\* lines 163-172: except Exception
ExceptException ==
    /\ pc = "except_Exception"
    /\ ErrorBranch("Neizvestnaya oshibka: ")

\* line 174: time.sleep(RETRY_PERIOD); the locals of the iteration are dead
Sleep ==
    /\ pc = "sleep"
    /\ pc' = "get_api_answer"
    /\ response' = None
    /\ homeworks' = None
    /\ message' = None
    /\ error' = None
    /\ sent' = <<>>
    /\ fetches' = 0
    /\ http' = None
    /\ sleeps' = Append(sleeps, RETRY_PERIOD)
    /\ cleared' = IF error # None THEN None ELSE cleared
    /\ UNCHANGED <<PRACTICUM_TOKEN, TELEGRAM_TOKEN, TELEGRAM_CHAT_ID, timestamp,
                   last_error_message, critical_log, from_date, run_message,
                   run_attempts>>

Next ==
    \/ MainStart
    \/ GetApiAnswer
    \/ CheckResponse
    \/ ParseStatus
    \/ SendStatus
    \/ Advance
    \/ ExceptPracticumAPIError
    \/ ExceptException
    \/ Sleep

Spec == Init /\ [][Next]_vars

-----------------------------------------------------------------------------
\* Vocabulary of the properties.

ErrorPcs == {"except_PracticumAPIError", "except_Exception"}

\* the iteration has ended and main() is at the sleep of line 174
AtSleep == pc = "sleep"

\* the iteration that has ended took an except clause
Failed == AtSleep /\ error # None

\* the error notifications among the sends of this iteration
ErrorSends == {i \in 1..Len(sent) : sent[i].site = "error"}

\* the status notifications among the sends of this iteration
StatusSends == {i \in 1..Len(sent) : sent[i].site = "status"}

-----------------------------------------------------------------------------
\* C1: in a failed iteration an error notification is attempted if and only
\* if the composed message differs from the memo; so in a run of consecutive
\* failures with the same message exactly one attempt is made (the first),
\* and a failure with another message causes one more attempt.
C1_NotifyIffDiffers ==
    /\ [][(pc \in ErrorPcs) =>
            (IF Some(message'[1]) # last_error_message
             THEN /\ Len(sent') = Len(sent) + 1
                  /\ sent'[Len(sent')].site = "error"
                  /\ sent'[Len(sent')].text = message'[1]
             ELSE sent' = sent)]_vars
    /\ [](run_message # None => run_attempts = 1)
    /\ [][(pc \in ErrorPcs) /\ run_message # None
              /\ run_message # Some(message'[1])
            => Len(sent') = Len(sent) + 1]_vars

\* an identical failure follows a notified one and is not notified again
C1_Witness ==
    /\ Failed
    /\ ErrorSends = {}
    /\ run_message = message
    /\ run_attempts = 1

C3_CursorSetOnlyOnSuccess ==
    /\ [][pc # "start" =>
            (IF pc = "advance"
             THEN /\ error = None
                  /\ "current_date" \in DOMAIN response.val
                  /\ timestamp' = response.val["current_date"]
             ELSE timestamp' = timestamp)]_vars
    /\ [](Failed => timestamp = from_date)
    /\ [](AtSleep /\ response # None /\ response.type = "dict"
            /\ "current_date" \notin DOMAIN response.val
          => error # None /\ timestamp = from_date)

\* a successful iteration has changed the cursor to the response's value
C3_Witness ==
    /\ AtSleep
    /\ error = None
    /\ timestamp # from_date
    /\ timestamp = response.val["current_date"]

\* the names of the required values that are unset or empty
C4_MissingNames ==
    {n \in {"PRACTICUM_TOKEN", "TELEGRAM_TOKEN", "TELEGRAM_CHAT_ID"} :
        LET v == CASE n = "PRACTICUM_TOKEN" -> PRACTICUM_TOKEN
                   [] n = "TELEGRAM_TOKEN" -> TELEGRAM_TOKEN
                   [] n = "TELEGRAM_CHAT_ID" -> TELEGRAM_CHAT_ID
        IN  v = None \/ v = Some("")}

\* C4: when some required value is missing main() ends before the loop, no
\* fetch and no notification is made, and exactly the missing names are
\* logged; when none is missing the loop is entered.
C4_MissingConfigExits ==
    pc # "start" =>
        IF C4_MissingNames # {}
        THEN /\ pc = "exited"
             /\ from_date = None /\ fetches = 0 /\ sent = <<>>
             /\ critical_log # None
             /\ {critical_log[1][i] : i \in 1..Len(critical_log[1])}
                    = C4_MissingNames
             /\ Len(critical_log[1]) = Cardinality(C4_MissingNames)
        ELSE /\ pc # "exited"
             /\ critical_log = None

\* main() has exited with two of the three values missing
C4_Witness ==
    /\ pc = "exited"
    /\ Cardinality(C4_MissingNames) = 2

\* C5 as stated: whatever exception a step of an iteration raises, the send of
\* the error notification included, the except clause ends at the sleep and
\* the process goes on.
C5_EveryErrorReachesSleep ==
    [][(pc \in ErrorPcs) => pc' = "sleep"]_vars

\* C6: a transport or bot-API failure of the error notification, in either
\* except clause, is swallowed: the iteration ends at the sleep with the
\* cursor unchanged, and the sleep is followed by the next fetch.
C6_ErrorSendFailureSwallowed ==
    /\ [][(pc \in ErrorPcs) /\ Len(sent') = Len(sent) + 1
              /\ sent'[Len(sent')].outcome.raised
              /\ IsSendFailure(sent'[Len(sent')].outcome.error)
            => pc' = "sleep" /\ timestamp' = timestamp]_vars
    /\ [][pc = "sleep" => pc' = "get_api_answer" /\ timestamp' = timestamp]_vars
    /\ [](pc = "sleep" => ENABLED Sleep)

\* the error notification could not be delivered and main() is at the sleep
C6_Witness ==
    /\ Failed
    /\ timestamp = from_date
    /\ \E i \in ErrorSends :
          /\ sent[i].outcome.raised
          /\ IsSendFailure(sent[i].outcome.error)

\* the message the except clauses compose for the exception e
C7_Composed(e) ==
    (IF IsPracticumAPIError(e) THEN "Sboi v rabote programmy: "
     ELSE "Neizvestnaya oshibka: ") \o Str(e)

\* C7: after every failed iteration the memo is the message composed in it,
\* whether the notification was delivered, failed or was suppressed.
C7_MemoIsComposedMessage ==
    Failed => last_error_message = Some(C7_Composed(error))

\* the notification failed to send and the memo holds its text
C7_Witness ==
    /\ Failed
    /\ \E i \in ErrorSends :
          /\ sent[i].outcome.raised
          /\ last_error_message = Some(sent[i].text)

\* C8 as stated: when fetch and validation succeeded, the memo is empty at
\* the end of the iteration.
C8_MemoClearedAfterValidation ==
    AtSleep /\ homeworks # None => last_error_message = None

\* C8 amended: when fetch and validation succeeded and, for a non-empty list,
\* the first item was formatted and its notification delivered, the memo is
\* empty at the end of the iteration.
C8_MemoClearedAfterSuccess ==
    AtSleep /\ homeworks # None
        /\ (homeworks.val = <<>>
              \/ \E i \in StatusSends : ~sent[i].outcome.raised)
      => last_error_message = None

\* a status notification was delivered and the memo is empty
C8_Witness ==
    /\ AtSleep
    /\ homeworks # None
    /\ \E i \in StatusSends : ~sent[i].outcome.raised
    /\ last_error_message = None

\* the iteration is over: main() sleeps or has been left by an exception
C9_IterationOver == pc \in {"sleep", "crashed"}

\* the item has a name and one of the three known statuses
C9_Formattable(item) ==
    /\ "homework_name" \in DOMAIN item
    /\ "status" \in DOMAIN item
    /\ item["status"] \in {"approved", "reviewing", "rejected"}

\* the sentence for the item
C9_Text(item) ==
    "Izmenilsya status proverki raboty \"" \o item["homework_name"] \o "\". "
        \o (CASE item["status"] = "approved" ->
                     "Rabota proverena: revyueru vsyo ponravilos. Ura!"
              [] item["status"] = "reviewing" ->
                     "Rabota vzyata na proverku revyuerom."
              [] item["status"] = "rejected" ->
                     "Rabota proverena: u revyuera est zamechaniya.")

\* one status notification, for element 0; delivered, the cursor is current_date
C9_OneStatusForFirst ==
    /\ Cardinality(StatusSends) = 1
    /\ sent[1].site = "status"
    /\ sent[1].text = C9_Text(homeworks.val[1])
    /\ ~sent[1].outcome.raised =>
          pc = "sleep" /\ timestamp = response.val["current_date"]

\* C9 as stated: a valid response with a non-empty list causes exactly one
\* status notification, with the formatter's text for element 0.
C9_NonEmptyListNotifiesFirst ==
    C9_IterationOver /\ homeworks # None /\ homeworks.val # <<>>
      => C9_OneStatusForFirst

\* C9 amended: a valid response with a non-empty list whose element 0 has a
\* name and a known status causes exactly one status notification, with the
\* formatter's text for element 0, none for the elements after it, and the
\* cursor becomes current_date when the send succeeds.
C9_FormattableFirstNotified ==
    C9_IterationOver /\ homeworks # None /\ homeworks.val # <<>>
        /\ C9_Formattable(homeworks.val[1])
      => C9_OneStatusForFirst

\* two different items, the first X approved, one notification delivered
C9_Witness ==
    /\ AtSleep
    /\ homeworks # None
    /\ Len(homeworks.val) = 2
    /\ homeworks.val[1] = Item(Some("X"), Some("approved"))
    /\ homeworks.val[2] = Item(Some("Y"), Some("rejected"))
    /\ Len(sent) = 1
    /\ ~sent[1].outcome.raised
    /\ timestamp # from_date

\* C10: a valid response with an empty list causes no notification of any
\* kind, the cursor becomes current_date and the memo is cleared.
C10_EmptyListAdvancesSilently ==
    C9_IterationOver /\ homeworks # None /\ homeworks.val = <<>>
      => /\ pc = "sleep"
         /\ sent = <<>>
         /\ timestamp = response.val["current_date"]
         /\ last_error_message = None

\* an empty list has moved the cursor
C10_Witness ==
    /\ AtSleep
    /\ homeworks # None
    /\ homeworks.val = <<>>
    /\ sent = <<>>
    /\ timestamp # from_date

\* C11: get_api_answer gives each outcome of its request one result, in this
\* order: a transport failure is a request error; else a status code other
\* than 200 is a response error; else an undecodable body is a decode error;
\* else the decoded payload is returned.
C11_FetchClassification ==
    http # None =>
        /\ fetches = 1
        /\ IF http.kind = "raise"
           THEN http.error.type = "RequestException" =>
                   /\ response = None
                   /\ error.type = "APIRequestError"
           ELSE IF http.status_code # 200
           THEN /\ response = None
                /\ error.type = "APIResponseError"
           ELSE IF http.json.raised
           THEN /\ response = None
                /\ error.type = "APIJSONError"
           ELSE response = http.json.value

\* a 404 with a decodable body has given a response error
C11_Witness ==
    /\ http # None
    /\ http.kind = "response"
    /\ http.status_code = 404
    /\ ~http.json.raised
    /\ error.type = "APIResponseError"

\* the payload is a mapping with both keys and a list under homeworks
C12_Valid(resp) ==
    /\ resp.type = "dict"
    /\ "homeworks" \in DOMAIN resp.val
    /\ "current_date" \in DOMAIN resp.val
    /\ resp.val["homeworks"].type = "list"

\* C12: check_response returns the homeworks value unchanged exactly for a
\* mapping with both keys whose homeworks is a list; otherwise it raises:
\* wrong shape, else missing field, else wrong field type.
C12_ValidationContract ==
    response # None /\ pc # "check_response" =>
        IF C12_Valid(response)
        THEN homeworks = response.val["homeworks"]
        ELSE /\ homeworks = None
             /\ error # None
             /\ IF response.type # "dict"
                THEN error = Exc("TypeError",
                                 "Otvet API imeet nevernyi tip, ozhidalsya dict")
                ELSE IF "homeworks" \notin DOMAIN response.val
                        \/ "current_date" \notin DOMAIN response.val
                THEN error = Exc("KeyError",
                                 "V otvete API otsutstvuyut ozhidaemye klyuchi")
                ELSE error = Exc("TypeError",
                                 "Klyuch \"homeworks\" dolzhen soderzhat spisok")

\* a payload with a list but without current_date was refused
C12_Witness ==
    /\ response # None
    /\ pc = "except_Exception"
    /\ response.type = "dict"
    /\ "homeworks" \in DOMAIN response.val
    /\ response.val["homeworks"].type = "list"
    /\ "current_date" \notin DOMAIN response.val
    /\ error.type = "KeyError"

\* parse_status has been applied to element 0 of a non-empty list
C13_Parsed ==
    /\ homeworks # None
    /\ homeworks.val # <<>>
    /\ pc # "parse_status"

\* C13: parse_status returns a message exactly for an item with both fields
\* and a status among approved, reviewing, rejected, and the message joins
\* the item's name with the verdict of that status; any other item raises
\* and gives no message.
C13_FormatterContract ==
    C13_Parsed =>
        IF C9_Formattable(homeworks.val[1])
        THEN IF pc = "send_message"
             THEN message = Some(C9_Text(homeworks.val[1]))
             ELSE StatusSends # {} /\ sent[1].text = C9_Text(homeworks.val[1])
        ELSE /\ StatusSends = {}
             /\ pc # "send_message"
             /\ error # None
             /\ error.type =
                    IF "homework_name" \in DOMAIN homeworks.val[1]
                       /\ "status" \in DOMAIN homeworks.val[1]
                    THEN "ValueError" ELSE "KeyError"

\* the item Y under review has been formatted
C13_Witness ==
    /\ pc = "send_message"
    /\ homeworks.val[1] = Item(Some("Y"), Some("reviewing"))
    /\ message = Some("Izmenilsya status proverki raboty \"Y\". "
                          \o "Rabota vzyata na proverku revyuerom.")

\* the positions of main() after the fetch of the iteration
C14_AfterFetch ==
    {"check_response", "parse_status", "send_message", "advance", "sleep",
     "crashed"} \cup ErrorPcs

\* C14: each iteration makes exactly one fetch, with from_date the cursor at
\* the start of the iteration; between two consecutive fetches there is
\* exactly one sleep of RETRY_PERIOD, after a success and after a failure;
\* a failed fetch is not retried in its iteration.
C14_OneFetchOneSleep ==
    /\ [](pc = "get_api_answer" =>
            fetches = 0 /\ sleeps \in {<<>>, <<RETRY_PERIOD>>})
    /\ [](pc \in C14_AfterFetch => fetches = 1 /\ sleeps = <<>>)
    /\ [][pc = "start" => sleeps' = <<>>]_vars
    /\ [][pc = "get_api_answer" => from_date' = timestamp /\ fetches' = 1]_vars
    /\ [][pc = "sleep" =>
            /\ pc' = "get_api_answer"
            /\ sleeps' = <<RETRY_PERIOD>>
            /\ timestamp' = timestamp]_vars

\* a fetch of a later iteration has failed and was made once
C14_Witness ==
    /\ pc = "except_PracticumAPIError"
    /\ last_error_message # None
    /\ response = None
    /\ fetches = 1
    /\ from_date = timestamp

\* the status notification of this iteration was attempted and failed
C15_StatusSendFailed == StatusSends # {} /\ sent[1].outcome.raised

\* C15: the cursor passes a response with a non-empty list only after the
\* status notification of its first item was delivered; a failed status
\* send is not swallowed: the iteration takes an except clause, the cursor
\* and the memo are not reset, and the next fetch uses the same cursor.
C15_AdvanceOnlyAfterDelivery ==
    /\ [][pc = "send_message" =>
            (IF sent'[Len(sent')].outcome.raised
             THEN /\ pc' \in ErrorPcs
                  /\ error' = sent'[Len(sent')].outcome.error
                  /\ timestamp' = timestamp
                  /\ last_error_message' = last_error_message
             ELSE pc' = "advance")]_vars
    /\ [](pc = "advance" /\ homeworks.val # <<>> =>
            /\ Len(sent) = 1
            /\ sent[1].site = "status"
            /\ ~sent[1].outcome.raised)
    /\ [](C9_IterationOver /\ C15_StatusSendFailed =>
            /\ error # None
            /\ timestamp = from_date
            /\ pc = "sleep" => last_error_message # None)
    /\ [][pc = "sleep" /\ C15_StatusSendFailed => timestamp' = from_date]_vars
    /\ [][pc = "get_api_answer" => from_date' = timestamp]_vars

\* the status send failed and the cursor stayed behind the response's date
C15_Witness ==
    /\ AtSleep
    /\ C15_StatusSendFailed
    /\ timestamp = from_date
    /\ response.val["current_date"] # timestamp

\* the except clause has attempted a notification with the composed message
C16_Attempted ==
    /\ Len(sent') = Len(sent) + 1
    /\ sent'[Len(sent')].site = "error"
    /\ sent'[Len(sent')].text = message'[1]

\* C16: every successful iteration resets the memo, so the first failure
\* after a successful iteration is notified, also when its message is the
\* one that failed before that success.
C16_NotifiedAgainAfterSuccess ==
    /\ [](AtSleep /\ error = None => last_error_message = None)
    /\ [][(pc \in ErrorPcs) /\ run_message = None => C16_Attempted]_vars
    /\ [][(pc \in ErrorPcs) /\ cleared # None /\ cleared = message'
            => C16_Attempted]_vars

\* the message cleared by the last success has failed again and was notified
C16_Witness ==
    /\ Failed
    /\ cleared # None
    /\ cleared = message
    /\ ErrorSends # {}

\* the error is a request, response or decode error of the fetch step
C17_FetchError ==
    /\ response = None
    /\ error.type \in {"APIRequestError", "APIResponseError", "APIJSONError"}

\* the message with the prefix of the error's kind
C17_Message ==
    (IF C17_FetchError THEN "Sboi v rabote programmy: "
     ELSE "Neizvestnaya oshibka: ") \o Str(error)

\* C17: the except clause taken depends only on the kind of failure: the
\* fetch step's request, response and decode errors get the program-failure
\* prefix, every other failure the unknown-error prefix; both clauses
\* compare with the memo, attempt the notification, swallow a send failure
\* and update the memo alike, and exactly one of them runs.
C17_BranchByKind ==
    [][(pc \in ErrorPcs) =>
         /\ (pc = "except_PracticumAPIError") <=> C17_FetchError
         /\ message' = Some(C17_Message)
         /\ pc' \notin ErrorPcs
         /\ error' = error
         /\ IF Some(C17_Message) # last_error_message
            THEN /\ C16_Attempted
                 /\ LET outcome == sent'[Len(sent')].outcome
                    IN  ~outcome.raised \/ IsSendFailure(outcome.error) =>
                           /\ pc' = "sleep"
                           /\ last_error_message' = Some(C17_Message)
            ELSE /\ sent' = sent
                 /\ pc' = "sleep"
                 /\ last_error_message' = last_error_message]_vars

\* a validation error was reported with the unknown-error prefix
C17_Witness ==
    /\ Failed
    /\ response # None
    /\ homeworks = None
    /\ message = Some("Neizvestnaya oshibka: "
                          \o "'V otvete API otsutstvuyut ozhidaemye klyuchi'")
    /\ ErrorSends # {}

====
